---- MODULE Spec2Model ----
(***************************************************************************)
(* A model of weather.py: the single-shot pipeline                         *)
(*   fetch_weather_data -> process_weather_data -> save_to_csv ->          *)
(*   generate_display_image -> display_image | debug_output_image          *)
(* run once per process start, with the history file the only state that   *)
(* one run hands to the next.                                              *)
(*                                                                         *)
(* Text is a sequence of one-character strings, so that joining and        *)
(* prefixing are computed character by character.  An optional value (a    *)
(* Python local not yet bound) is a sequence of length 0 or 1.             *)
(***************************************************************************)
EXTENDS Integers, Sequences, FiniteSets, TLC

\* ---------------------------------------------------------------- bounds
\* Number of process starts (timer invocations) that are followed.
MaxRuns == 2
\* Longest "alerts" array of a raw response.
MaxAlerts == 2

\* ------------------------------------------------------------- constants
\* weekday(): 0 = Monday .. 6 = Sunday
Weekdays == 0..6

\* The values TRASH_DAYS takes in the model (the parse of the TRASH_DAYS
\* variable: unset, one day, the two days of the source's example "2,5").
TrashDayChoices == {{}, {2}, {2, 5}}

\* Event names of alert entries.
EventNames == {<<"H", "e", "a", "t">>, <<"F", "l", "o", "o", "d">>}

\* 'TAKE OUT TRASH TODAY!'
TrashText ==
    <<"T","A","K","E"," ","O","U","T"," ","T","R","A","S","H"," ","T","O","D","A","Y","!">>

\* The paths process_weather_data reads with [] (a missing one raises), in
\* the order it reads them.
RequiredFields ==
    <<"current", "daily0", "current.temp", "current.feels_like",
      "current.humidity", "current.wind_speed", "current.weather0.description",
      "current.weather0.icon", "daily0.temp.max", "daily0.temp.min", "daily0.pop">>

FieldSet == {RequiredFields[i] : i \in 1..Len(RequiredFields)}

\* CSV_RECORD_HISTORY = True
CSV_RECORD_HISTORY == TRUE

\* The header row of the history file.
header ==
    <<"YEAR", "MONTH", "DATE", "TIME", "LOCATION", "TEMP_CURRENT", "HEAT_INDEX",
      "TEMP_MAX", "TEMP_MIN", "HUMIDITY", "DAILY_PRECIP_PROB", "WIND_SPEED(MPH)">>

\* ------------------------------------------------------------ raw inputs
\* An alert entry is a record; one without the key "event" is an entry whose
\* event is missing.
AlertEntries == {[event |-> e] : e \in EventNames} \cup {[sender |-> "NWS"]}

RECURSIVE SeqsUpTo(_, _)
SeqsUpTo(S, n) ==
    IF n = 0 THEN {<<>>}
    ELSE LET shorter == SeqsUpTo(S, n - 1)
         IN  shorter \cup {Append(s, x) : s \in {t \in shorter : Len(t) = n - 1}, x \in S}

\* A raw response: the set of required paths it holds, whether it has the key
\* "alerts", and the alerts array (empty when the key is absent).  At most one
\* required path is missing.
RawResponses ==
    {[fields |-> FieldSet \ m, has_alerts |-> h, alerts |-> a] :
        m \in {{}} \cup {{f} : f \in FieldSet},
        h \in BOOLEAN,
        a \in SeqsUpTo(AlertEntries, MaxAlerts)} \ 
    {d \in [fields : SUBSET FieldSet, has_alerts : {FALSE},
            alerts : SeqsUpTo(AlertEntries, MaxAlerts)] : d.alerts # <<>>}

\* -------------------------------------------------------- pure functions
\* sep.join(strs)
RECURSIVE Join(_, _)
Join(strs, sep) ==
    IF Len(strs) = 0 THEN <<>>
    ELSE IF Len(strs) = 1 THEN strs[1]
    ELSE strs[1] \o sep \o Join(Tail(strs), sep)

Digit(d) == <<"0", "1", "2", "3", "4", "5", "6", "7", "8", "9">>[d + 1]

\* f"{n}" of a non-negative integer
RECURSIVE Str(_)
Str(n) == IF n < 10 THEN <<Digit(n)>> ELSE Str(n \div 10) \o <<Digit(n % 10)>>

\* data.get("alerts", [])
GetAlerts(d) == IF d.has_alerts THEN d.alerts ELSE <<>>

\* The first path of RequiredFields, from position i on, that d lacks (0: none).
RECURSIVE FirstMissing(_, _)
FirstMissing(d, i) ==
    IF i > Len(RequiredFields) THEN 0
    ELSE IF RequiredFields[i] \notin d.fields THEN i
    ELSE FirstMissing(d, i + 1)

\* alert["event"] raises for an entry without the key.
EventsReadable(alerts) == \A i \in 1..Len(alerts) : "event" \in DOMAIN alerts[i]

\* A slip: the fields read after "current" and "daily"[0] are read with .get,
\* so a missing one no longer raises.
ExtractionRaisesLenient(d) ==
    \/ FirstMissing(d, 1) \in 1..2
    \/ ~EventsReadable(GetAlerts(d))

\* Whether the body of process_weather_data raises on d: "current" and
\* "daily"[0] are read first, then every alert's "event", then the rest.
ExtractionRaises(d) ==
    \/ FirstMissing(d, 1) \in 1..2
    \/ ~EventsReadable(GetAlerts(d))
    \/ FirstMissing(d, 3) # 0

\* The dict process_weather_data returns.  A weather value stands for the path
\* it is computed from (report: its title-cased text, precip_percent: its
\* hundredfold); the alert fields are computed in full.
WeatherRecord(d) ==
    LET alerts == GetAlerts(d)
    IN  [temp_current   |-> "current.temp",
         feels_like     |-> "current.feels_like",
         humidity       |-> "current.humidity",
         wind           |-> "current.wind_speed",
         report         |-> "current.weather0.description",
         icon_code      |-> "current.weather0.icon",
         temp_max       |-> "daily0.temp.max",
         temp_min       |-> "daily0.temp.min",
         precip_percent |-> "daily0.pop",
         alert_count    |-> Len(alerts),
         alert_names    |-> Join([i \in 1..Len(alerts) |-> alerts[i].event], <<",", " ">>)]

\* A slip: the count is prefixed for a single alert too.
AlertStringAlwaysCounted(w) ==
    <<"(">> \o Str(w.alert_count) \o <<")", " ">> \o w.alert_names

\* The text generate_display_image draws for the alerts of record w.
AlertString(w) ==
    IF w.alert_count > 1
    THEN <<"(">> \o Str(w.alert_count) \o <<")", " ">> \o w.alert_names
    ELSE w.alert_names

\* A slip: the two blocks in the other order, the trash reminder drawn last.
BannerDrawsTrashLast(w, wd, trash_days) ==
    (IF w.alert_count > 0 THEN <<[kind |-> "alert", text |-> AlertString(w)]>> ELSE <<>>)
    \o (IF wd \in trash_days THEN <<[kind |-> "trash", text |-> TrashText]>> ELSE <<>>)

\* The writes generate_display_image makes to the banner region (345,13)-
\* (705,55), in order: the trash reminder when today is a trash day, then the
\* alert text when there is an alert.  Each write fills the region and draws
\* its text, so the region shows the last write.
BannerDraws(w, wd, trash_days) ==
    (IF wd \in trash_days THEN <<[kind |-> "trash", text |-> TrashText]>> ELSE <<>>)
    \o (IF w.alert_count > 0 THEN <<[kind |-> "alert", text |-> AlertString(w)]>> ELSE <<>>)

\* A slip: the fixture branch is never taken.
NeverUsesFixture(read_debug_file) == FALSE

\* if read_debug_file: ... return / raise (the fixture branch never falls through)
UsesFixture(read_debug_file) == read_debug_file

\* A slip: the header is written by every run.
HeaderAlwaysWritten(file_exists) == TRUE

\* if not file_exists: writer.writerow(header)
HeaderWritten(file_exists) == ~file_exists

\* A slip: the failed call is made again.
RetryAfterException(stage) == stage

\* main's single handler: log the exception and fall off the end of main.
AfterException(stage) == "done"

\* A slip: no return after display_image, main falls through.
FallThroughAfterDisplay == "debug_output_image"

\* display_image(image); return
AfterDisplay == "done"

\* ------------------------------------------------------------------ state
VARIABLES
    run,            \* number of process starts so far
    pc,             \* the call main makes next; "start" between processes
    env,            \* module-level configuration read at import
    flags,          \* fetch_weather_data's read_debug_file / write_debug_file
    data,           \* main's data
    weather_data,   \* main's weather_data
    image,          \* main's image
    weekday,        \* datetime.today().weekday() as generate_display_image read it
    history,        \* the history file: whether it exists, and its rows
    hist0,          \* the history file as the process found it
    appended,       \* number of save_to_csv calls whose write completed
    marred,         \* some save_to_csv write failed after the file was opened
    invoked,        \* the functions main has called, in order
    output,         \* the (sink, image) pairs handed to an output sink
    ext,            \* the external calls attempted, in order
    held,           \* resource handles acquired and not released
    effects,        \* durable effects of this run other than history and log
    log,            \* the log records of this run
    failed          \* the call whose exception main caught ("none": none)

vars == <<run, pc, env, flags, data, weather_data, image, weekday, history, hist0,
          appended, marred, invoked, output, ext, held, effects, log, failed>>

persistent == <<run, history, appended, marred>>

NoEnv == [UPDATE_DISPLAY |-> "unset", CSV_RECORD_FILE |-> <<>>, TRASH_DAYS |-> {}]

Envs ==
    [UPDATE_DISPLAY : {"True", "False"},
     CSV_RECORD_FILE : {<<>>, <<"record.csv">>},
     TRASH_DAYS : TrashDayChoices]

\* The memory of a process that has not started: nothing bound, nothing held.
Blank ==
    /\ env = NoEnv
    /\ flags = <<>>
    /\ data = <<>>
    /\ weather_data = <<>>
    /\ image = <<>>
    /\ weekday = <<>>
    /\ invoked = <<>>
    /\ output = <<>>
    /\ ext = <<>>
    /\ held = {}
    /\ effects = {}
    /\ log = <<>>
    /\ failed = "none"

Init ==
    /\ run = 0
    /\ pc = "start"
    /\ history = [exists |-> FALSE, rows |-> <<>>]
    /\ hist0 = history
    /\ appended = 0
    /\ marred = FALSE
    /\ Blank

\* An exception leaves the callee (which logged `msgs`) and reaches main's handler.
Raise(stage, msgs) ==
    /\ pc' = AfterException(stage)
    /\ failed' = stage
    /\ log' = log \o msgs \o <<"An unexpected error occurred">>

\* --------------------------------------------------------------- actions
\* Process start: load_dotenv and the module-level os.getenv calls, the
\* logger set-up and its first record; then __main__ calls main().
Startup ==
    /\ pc = "start"
    /\ run < MaxRuns
    /\ run' = run + 1
    /\ \E e \in Envs : env' = e
    /\ hist0' = history
    /\ log' = <<"Weather display script started.">>
    /\ pc' = "fetch_weather_data"
    /\ UNCHANGED <<flags, data, weather_data, image, weekday, history, appended, marred,
                   invoked, output, ext, held, effects, failed>>

\* fetch_weather_data(), called by main.
FetchWeatherData ==
    /\ pc = "fetch_weather_data"
    /\ invoked' = Append(invoked, "fetch_weather_data")
    /\ \E rd \in BOOLEAN, wr \in BOOLEAN :
        /\ flags' = <<[read_debug_file |-> rd, write_debug_file |-> wr]>>
        /\ IF UsesFixture(rd)
           THEN \* with open(debug_file_path, 'r') as f: return json.load(f)
                \E outcome \in {"open_fails", "load_fails", "ok"} :
                    /\ ext' = Append(ext, "fixture_read")
                    /\ held' = (held \cup {"fixture_file"}) \ {"fixture_file"}
                    /\ effects' = effects
                    /\ CASE outcome = "open_fails" ->
                              /\ Raise("fetch_weather_data", <<"Failed to read debug JSON file">>)
                              /\ data' = data
                         [] outcome = "load_fails" ->
                              /\ Raise("fetch_weather_data",
                                       <<"Reading weather data from debug JSON file.",
                                         "Failed to read debug JSON file">>)
                              /\ data' = data
                         [] outcome = "ok" ->
                              /\ \E d \in RawResponses : data' = <<d>>
                              /\ log' = Append(log, "Reading weather data from debug JSON file.")
                              /\ pc' = "process_weather_data"
                              /\ failed' = failed
           ELSE \* requests.get(url); raise_for_status(); response.json()
                \E outcome \in {"request_fails", "json_fails", "ok"} :
                    /\ CASE outcome = "request_fails" ->
                              /\ Raise("fetch_weather_data", <<"Failed to fetch weather data">>)
                              /\ ext' = Append(ext, "http_get")
                              /\ UNCHANGED <<data, held, effects>>
                         [] outcome = "json_fails" ->
                              \* the body is not JSON: a RequestException in a recent
                              \* requests (logged here), a plain ValueError in an old one
                              /\ \E logged \in BOOLEAN :
                                    Raise("fetch_weather_data",
                                          <<"Weather data fetched successfully.">>
                                          \o (IF logged THEN <<"Failed to fetch weather data">>
                                              ELSE <<>>))
                              /\ ext' = Append(ext, "http_get")
                              /\ UNCHANGED <<data, held, effects>>
                         [] outcome = "ok" ->
                              /\ \E d \in RawResponses : data' = <<d>>
                              /\ pc' = "process_weather_data"
                              /\ failed' = failed
                              /\ IF wr
                                 THEN \* with open(debug_file_path, 'w') as f: json.dump(...)
                                      \E w \in {"open_fails", "dump_fails", "ok"} :
                                        /\ ext' = ext \o <<"http_get", "fixture_write">>
                                        /\ held' = (held \cup {"fixture_file"}) \ {"fixture_file"}
                                        /\ effects' =
                                             effects \cup
                                             (CASE w = "open_fails" -> {}
                                                [] w = "dump_fails" -> {"fixture_truncated"}
                                                [] w = "ok" -> {"fixture_written"})
                                        /\ log' =
                                             log \o <<"Weather data fetched successfully.">>
                                             \o (IF w = "ok"
                                                 THEN <<"Weather data written to debug JSON file.">>
                                                 ELSE <<"Failed to write debug data">>)
                                 ELSE /\ ext' = Append(ext, "http_get")
                                      /\ log' = Append(log, "Weather data fetched successfully.")
                                      /\ UNCHANGED <<held, effects>>
    /\ UNCHANGED <<run, env, weather_data, image, weekday, history, hist0, appended,
                   marred, output>>

\* process_weather_data(data), called by main.
ProcessWeatherData ==
    /\ pc = "process_weather_data"
    /\ invoked' = Append(invoked, "process_weather_data")
    /\ IF ExtractionRaises(data[1])
       THEN /\ Raise("process_weather_data", <<"Error processing weather data">>)
            /\ weather_data' = weather_data
       ELSE /\ weather_data' = <<WeatherRecord(data[1])>>
            /\ log' = Append(log, "Weather data processed successfully.")
            /\ pc' = "save_to_csv"
            /\ failed' = failed
    /\ UNCHANGED <<run, env, flags, data, image, weekday, history, hist0, appended, marred,
                   output, ext, held, effects>>

\* now.strftime(...): the clock is read once per run, and runs are at least a
\* minute apart, so the run number stands for the reading.
Strftime(now) == Digit(now)

\* The row save_to_csv builds from weather_data.
Row(w, now) ==
    <<Strftime(now), Strftime(now), Strftime(now), Strftime(now), "LOCATION",
      w.temp_current, w.feels_like, w.temp_max, w.temp_min,
      w.humidity, w.precip_percent, w.wind>>

\* What a completed `with open(filename, 'a')` block writes.
ToWrite(file_exists, w, now) ==
    (IF HeaderWritten(file_exists) THEN <<header>> ELSE <<>>) \o <<Row(w, now)>>

\* save_to_csv(weather_data), called by main.
SaveToCsv ==
    /\ pc = "save_to_csv"
    /\ invoked' = Append(invoked, "save_to_csv")
    /\ IF ~CSV_RECORD_HISTORY
       THEN /\ pc' = "generate_display_image"
            /\ UNCHANGED <<history, appended, marred, ext, held, log, failed>>
       ELSE IF env.CSV_RECORD_FILE = <<>>
       THEN \* os.path.exists(None) raises TypeError, outside the try block
            /\ Raise("save_to_csv", <<>>)
            /\ UNCHANGED <<history, appended, marred, ext, held>>
       ELSE LET file_exists == history.exists
                towrite == ToWrite(file_exists, weather_data[1], run)
            IN  /\ ext' = Append(ext, "history_append")
                /\ held' = (held \cup {"csv_file"}) \ {"csv_file"}
                /\ \E outcome \in {"open_fails", "write_fails", "writerow_raises", "ok"} :
                     CASE outcome = "open_fails" ->
                            \* IOError from open: caught and logged
                            /\ log' = Append(log, "Failed to save data to CSV")
                            /\ pc' = "generate_display_image"
                            /\ UNCHANGED <<history, appended, marred, failed>>
                       [] outcome = "write_fails" ->
                            \* IOError from a write or from the close: caught and
                            \* logged; the rows before the failing one are in the file
                            /\ \E k \in 0..(Len(towrite) - 1) :
                                 history' = [exists |-> TRUE,
                                             rows |-> history.rows \o SubSeq(towrite, 1, k)]
                            /\ marred' = TRUE
                            /\ log' = Append(log, "Failed to save data to CSV")
                            /\ pc' = "generate_display_image"
                            /\ UNCHANGED <<appended, failed>>
                       [] outcome = "writerow_raises" ->
                            \* writerow raises something that is no IOError (a
                            \* UnicodeEncodeError for a LOCATION the file's encoding
                            \* lacks, a csv.Error): not caught here
                            /\ \E k \in 0..(Len(towrite) - 1) :
                                 history' = [exists |-> TRUE,
                                             rows |-> history.rows \o SubSeq(towrite, 1, k)]
                            /\ marred' = TRUE
                            /\ Raise("save_to_csv", <<>>)
                            /\ UNCHANGED appended
                       [] outcome = "ok" ->
                            /\ history' = [exists |-> TRUE, rows |-> history.rows \o towrite]
                            /\ appended' = appended + 1
                            /\ log' = Append(log, "Weather data appended to CSV.")
                            /\ pc' = "generate_display_image"
                            /\ UNCHANGED <<marred, failed>>
    /\ UNCHANGED <<run, env, flags, data, weather_data, image, weekday, hist0, output,
                   effects>>

\* A slip: main returns without handing the image to a sink.
NoSinkFor(update_display) == "done"

\* if UPDATE_DISPLAY == 'True': display_image(image) ... else debug_output_image(image)
SinkFor(update_display) ==
    IF update_display = "True" THEN "display_image" ELSE "debug_output_image"

\* generate_display_image(weather_data), called by main.  Image.open keeps the
\* file open until the image is loaded; ImageDraw.Draw and paste load it.
GenerateDisplayImage ==
    /\ pc = "generate_display_image"
    /\ invoked' = Append(invoked, "generate_display_image")
    /\ \E outcome \in {"template_fails", "icon_fails", "draw_fails", "ok"},
          icon_exists \in BOOLEAN, wd \in Weekdays :
        /\ outcome = "icon_fails" => icon_exists
        /\ outcome # "ok" => wd = 0
        /\ ext' = ext \o <<"template_open">>
                      \o (IF outcome # "template_fails" /\ icon_exists
                          THEN <<"icon_open">> ELSE <<>>)
        /\ held' = (held \cup {"template_file", "icon_file"}) \ {"template_file", "icon_file"}
        /\ IF outcome = "ok"
           THEN /\ weekday' = <<wd>>
                /\ image' = <<[run |-> run,
                               icon |-> icon_exists,
                               banner |-> BannerDraws(weather_data[1], wd, env.TRASH_DAYS)]>>
                /\ log' = Append(log, "Display image generated successfully.")
                /\ pc' = SinkFor(env.UPDATE_DISPLAY)
                /\ failed' = failed
           ELSE /\ Raise("generate_display_image", <<"Error generating display image">>)
                /\ UNCHANGED <<weekday, image>>
    /\ UNCHANGED <<run, env, flags, data, weather_data, history, hist0, appended, marred,
                   output, effects>>

\* display_image(image), called by main when UPDATE_DISPLAY == 'True'.
\* epd.init() opens the panel's bus; nothing in display_image closes it.
DisplayImage ==
    /\ pc = "display_image"
    /\ invoked' = Append(invoked, "display_image")
    /\ output' = Append(output, [sink |-> "display_image", image |-> image[1]])
    /\ \E outcome \in {"import_fails", "init_fails", "clear_fails", "display_fails", "ok"} :
        /\ ext' = ext \o
             (CASE outcome = "import_fails" -> <<>>
                [] outcome = "init_fails" -> <<"epd_init">>
                [] outcome = "clear_fails" -> <<"epd_init", "epd_clear">>
                [] OTHER -> <<"epd_init", "epd_clear", "epd_display">>)
        /\ held' = IF outcome \in {"import_fails", "init_fails"} THEN held
                   ELSE held \cup {"epd"}
        /\ effects' = effects \cup
             (CASE outcome = "display_fails" -> {"panel_cleared"}
                [] outcome = "ok" -> {"panel_cleared", "panel_updated"}
                [] OTHER -> {})
        /\ CASE outcome \in {"import_fails", "init_fails", "clear_fails"} ->
                  Raise("display_image", <<"Initializing display">>)
             [] outcome = "display_fails" ->
                  Raise("display_image", <<"Failed to display image">>)
             [] outcome = "ok" ->
                  /\ log' = Append(log, "Image displayed on e-paper successfully.")
                  /\ pc' = AfterDisplay
                  /\ failed' = failed
    /\ UNCHANGED <<run, env, flags, data, weather_data, image, weekday, history, hist0,
                   appended, marred>>

\* debug_output_image(image), called by main otherwise.
DebugOutputImage ==
    /\ pc = "debug_output_image"
    /\ invoked' = Append(invoked, "debug_output_image")
    /\ output' = Append(output, [sink |-> "debug_output_image", image |-> image[1]])
    /\ ext' = Append(ext, "image_save")
    /\ held' = (held \cup {"test_jpg"}) \ {"test_jpg"}
    /\ \E outcome \in {"save_fails", "ok"} :
        IF outcome = "ok"
        THEN /\ effects' = effects \cup {"image_file_written"}
             /\ pc' = "done"
             /\ UNCHANGED <<log, failed>>
        ELSE /\ Raise("debug_output_image", <<"Failed output">>)
             /\ effects' = effects
    /\ UNCHANGED <<run, env, flags, data, weather_data, image, weekday, history, hist0,
                   appended, marred>>

\* main has returned and the interpreter exits: the process's memory is gone,
\* the files stay.
Exit ==
    /\ pc = "done"
    /\ pc' = "start"
    /\ hist0' = history
    /\ env' = NoEnv
    /\ flags' = <<>>
    /\ data' = <<>>
    /\ weather_data' = <<>>
    /\ image' = <<>>
    /\ weekday' = <<>>
    /\ invoked' = <<>>
    /\ output' = <<>>
    /\ ext' = <<>>
    /\ held' = {}
    /\ effects' = {}
    /\ log' = <<>>
    /\ failed' = "none"
    /\ UNCHANGED persistent

Next ==
    \/ Startup
    \/ FetchWeatherData
    \/ ProcessWeatherData
    \/ SaveToCsv
    \/ GenerateDisplayImage
    \/ DisplayImage
    \/ DebugOutputImage
    \/ Exit

Spec == Init /\ [][Next]_vars

TypeOK ==
    /\ run \in 0..MaxRuns
    /\ pc \in {"start", "fetch_weather_data", "process_weather_data", "save_to_csv",
               "generate_display_image", "display_image", "debug_output_image", "done"}
    /\ Len(data) <= 1 /\ Len(weather_data) <= 1 /\ Len(image) <= 1

\* ------------------------------------------------------ shared vocabulary
Count(s, x) == Cardinality({i \in DOMAIN s : s[i] = x})

Invoked(f) == Count(invoked, f) > 0

Last(s) == s[Len(s)]

IsPrefix(a, b) == Len(a) <= Len(b) /\ SubSeq(b, 1, Len(a)) = a

MainReturned == pc = "done"

FixtureEffects == {"fixture_written", "fixture_truncated"}

Sinks == {"display_image", "debug_output_image"}

\* The banner region as the finished image shows it: the last write, if any.
BannerShows(kind) ==
    /\ image[1].banner # <<>>
    /\ Last(image[1].banner).kind = kind

\* ------------------------------------------------------------------- C1
\* C1: banner precedence.  In a finished image, when today's weekday is in
\* TRASH_DAYS and alert_count > 0 the banner region shows the alert text and
\* not 'TAKE OUT TRASH TODAY!' (the alert draw is the last write to the
\* region); when only the weekday condition holds it shows the trash
\* reminder; when neither holds the region was never written.
C1_BannerPrecedence ==
    image # <<>> =>
        LET b == image[1].banner
            w == weather_data[1]
            trash == weekday[1] \in env.TRASH_DAYS
        IN  /\ (trash /\ w.alert_count > 0) =>
                  /\ BannerShows("alert")
                  /\ Last(b).text # TrashText
                  /\ \A i \in 1..Len(b) : b[i].kind = "alert" => i = Len(b)
            /\ (trash /\ w.alert_count = 0) =>
                  /\ BannerShows("trash")
                  /\ Last(b).text = TrashText
            /\ (~trash /\ w.alert_count = 0) => b = <<>>

C1_Witness ==
    /\ image # <<>>
    /\ weekday[1] \in env.TRASH_DAYS
    /\ weather_data[1].alert_count > 0
    /\ Len(image[1].banner) = 2

\* ------------------------------------------------------------------- C2
\* A raw response lacks a required field: one of the eleven paths, or the
\* "event" of one of its alert entries.
LacksRequired(d) ==
    \/ d.fields # FieldSet
    \/ d.has_alerts /\ \E i \in 1..Len(d.alerts) : "event" \notin DOMAIN d.alerts[i]

\* C2: for a raw response that lacks a required field, once
\* process_weather_data has been called it has failed and bound no record,
\* main has called none of save_to_csv, generate_display_image, display_image
\* and debug_output_image, the history file is as the run found it and no
\* image was made or output.
C2_MissingFieldStopsRun ==
    (data # <<>> /\ LacksRequired(data[1]) /\ Invoked("process_weather_data")) =>
        /\ weather_data = <<>>
        /\ failed = "process_weather_data"
        /\ MainReturned
        /\ \A f \in {"save_to_csv", "generate_display_image"} \cup Sinks : ~Invoked(f)
        /\ history = hist0
        /\ image = <<>>
        /\ output = <<>>
        /\ effects \subseteq FixtureEffects

C2_Witness ==
    /\ MainReturned
    /\ data # <<>>
    /\ LacksRequired(data[1])
    /\ failed = "process_weather_data"
    /\ Len(log) >= 3

\* ------------------------------------------------------------------- C3
\* C3: a failure of the history sink never aborts the pipeline: in every run
\* in which save_to_csv was called, whatever went wrong in it, the exception
\* did not reach main and main went on to call generate_display_image.
C3_HistoryFailureNeverAborts ==
    (MainReturned /\ Invoked("save_to_csv")) =>
        /\ failed # "save_to_csv"
        /\ Invoked("generate_display_image")

\* ------------------------------------------------------------------- C4
\* C4 as claimed: a run ends either with a full image handed to the output
\* sink, or early with nothing durable but log records: no appended history
\* row, no written fixture file, no change to the panel or the image file.
C4_NoPartialSuccess ==
    MainReturned =>
        \/ failed = "none" /\ Len(output) = 1
        \/ /\ failed # "none"
           /\ history = hist0
           /\ effects = {}

\* C4 amended: a run ends either with a full image handed to the output sink,
\* or early with the handler's log record as its last record; a run that
\* ends in fetch_weather_data left nothing durable besides the log, a run that
\* ends in process_weather_data left the history file as it found it, and a
\* run that ends later may already have appended to the history file.
C4_OutcomesOfRun ==
    MainReturned =>
        \/ /\ failed = "none"
           /\ image # <<>>
           /\ Len(output) = 1
           /\ output[1].image = image[1]
        \/ /\ failed # "none"
           /\ Last(log) = "An unexpected error occurred"
           /\ failed \notin Sinks => output = <<>>
           /\ failed = "fetch_weather_data" => history = hist0 /\ effects = {}
           /\ failed = "process_weather_data" =>
                  history = hist0 /\ effects \subseteq FixtureEffects

C4_Witness ==
    /\ MainReturned
    /\ failed = "generate_display_image"
    /\ Len(history.rows) > Len(hist0.rows)
    /\ output = <<>>

\* ------------------------------------------------------------------- C5
\* The run whose clock reading stands in the first cell of a data row.
RunOf(row) == CHOOSE n \in 1..MaxRuns : Strftime(n) = row[1]

\* C5: history row count.  Starting from no history file, as long as every
\* write that opened the file has completed, after N completed writes the file
\* holds the header as its first row and then exactly N data rows in run
\* order (and does not exist when N = 0); rows a run found are still there,
\* in place, and a run that found the file adds no header.
C5_HistoryRowCount ==
    /\ IsPrefix(hist0.rows, history.rows)
    /\ ~marred =>
        IF appended = 0
        THEN ~history.exists /\ history.rows = <<>>
        ELSE /\ history.exists
             /\ Len(history.rows) = appended + 1
             /\ history.rows[1] = header
             /\ \A i \in 2..Len(history.rows) : history.rows[i] # header
             /\ \A i \in 2..(Len(history.rows) - 1) :
                    RunOf(history.rows[i]) < RunOf(history.rows[i + 1])
             /\ hist0.exists =>
                    \A i \in (Len(hist0.rows) + 1)..Len(history.rows) :
                        history.rows[i] # header

C5_Witness ==
    /\ ~marred
    /\ appended = 2
    /\ Len(history.rows) = 3
    /\ hist0.exists
    /\ history # hist0

\* ------------------------------------------------------------------- C6
\* The order in which main calls the stages.
Pipeline ==
    <<"fetch_weather_data", "process_weather_data", "save_to_csv",
      "generate_display_image">>

ExternalCalls ==
    {"fixture_read", "http_get", "fixture_write", "history_append", "template_open",
     "icon_open", "epd_init", "epd_clear", "epd_display", "image_save"}

\* C6: no retry.  In a run every external call is attempted at most once,
\* also after it failed, and no stage is entered twice: the calls main has
\* made are an initial stretch of the pipeline, followed by at most one sink.
C6_NoRetry ==
    /\ \A c \in ExternalCalls : Count(ext, c) <= 1
    /\ \A i \in 1..Len(ext) : ext[i] \in ExternalCalls
    /\ \A i \in 1..Len(invoked) :
          IF i <= Len(Pipeline) THEN invoked[i] = Pipeline[i]
          ELSE i = Len(Pipeline) + 1 /\ invoked[i] \in Sinks
    /\ failed # "none" => MainReturned /\ Last(invoked) = failed

C6_Witness ==
    /\ MainReturned
    /\ failed = "display_image"
    /\ Count(ext, "epd_display") = 1
    /\ Count(ext, "http_get") = 1
    /\ Count(ext, "history_append") = 1

\* ------------------------------------------------------------------- C7
\* C7: every resource a run acquires is released before the run ends: when
\* main returns, no handle acquired during the run is still held.
C7_AllReleasedAtReturn == MainReturned => held = {}

\* ------------------------------------------------------------------- C8
\* C8: the source modes exclude each other.  With fixture reading enabled
\* fetch_weather_data issues no network request and writes no fixture file,
\* and a failed fixture read fails the fetch (no data, no fallback); without
\* it the fixture is not read; the fixture file is written only in live mode,
\* with writing enabled, after the response was obtained, and a failed write
\* is logged while the fetch still returns the data.
C8_SourceModesExclusive ==
    flags # <<>> =>
        LET f == flags[1]
        IN  /\ f.read_debug_file =>
                  /\ ext[1] = "fixture_read"
                  /\ Count(ext, "http_get") = 0
                  /\ Count(ext, "fixture_write") = 0
                  /\ effects \cap FixtureEffects = {}
                  /\ data = <<>> => MainReturned /\ failed = "fetch_weather_data"
            /\ ~f.read_debug_file =>
                  /\ ext[1] = "http_get"
                  /\ Count(ext, "fixture_read") = 0
            /\ Count(ext, "fixture_write") = 1 =>
                  /\ f.write_debug_file
                  /\ ext[2] = "fixture_write"
                  /\ data # <<>>
                  /\ failed # "fetch_weather_data"
                  /\ "fixture_written" \notin effects =>
                        Count(log, "Failed to write debug data") = 1
            /\ effects \cap FixtureEffects # {} => Count(ext, "fixture_write") = 1
            /\ (~f.read_debug_file /\ f.write_debug_file /\ data # <<>>) =>
                  Count(ext, "fixture_write") = 1

C8_Witness ==
    /\ flags # <<>>
    /\ flags[1].read_debug_file
    /\ flags[1].write_debug_file
    /\ MainReturned
    /\ failed = "fetch_weather_data"
    /\ ext = <<"fixture_read">>

\* ------------------------------------------------------------------- C9
\* C9: the output variants exclude each other and the image is consumed once.
\* When a run in which generate_display_image succeeded has ended, exactly one
\* sink was called, once, with the image the composer returned: display_image
\* when UPDATE_DISPLAY is 'True', debug_output_image otherwise; at no time
\* have both been called, and none is called without an image.
C9_OneSinkOnce ==
    /\ Len(output) <= 1
    /\ Count(invoked, "display_image") + Count(invoked, "debug_output_image") = Len(output)
    /\ image = <<>> => output = <<>>
    /\ output # <<>> =>
          /\ output[1].image = image[1]
          /\ output[1].sink = Last(invoked)
          /\ output[1].sink = "display_image" <=> env.UPDATE_DISPLAY = "True"
    /\ (MainReturned /\ image # <<>>) => Len(output) = 1

C9_Witness ==
    /\ MainReturned
    /\ failed = "none"
    /\ output # <<>>
    /\ output[1].sink = "display_image"
    /\ "panel_updated" \in effects

\* ------------------------------------------------------------------ C10
\* Where the i-th of `events` starts in their ", "-joined text, counted from 0.
RECURSIVE Offset(_, _)
Offset(events, i) ==
    IF i = 1 THEN 0 ELSE Offset(events, i - 1) + Len(events[i - 1]) + 2

\* `text` is `events` joined with ", " in the order given, read off position
\* by position: every event stands at its offset and ", " between neighbours.
IsCommaJoined(text, events) ==
    LET n == Len(events)
    IN  IF n = 0 THEN text = <<>>
        ELSE /\ Len(text) = Offset(events, n) + Len(events[n])
             /\ \A i \in 1..n :
                    SubSeq(text, Offset(events, i) + 1,
                           Offset(events, i) + Len(events[i])) = events[i]
             /\ \A i \in 1..(n - 1) :
                    /\ text[Offset(events, i) + Len(events[i]) + 1] = ","
                    /\ text[Offset(events, i) + Len(events[i]) + 2] = " "

\* The number a text of decimal digits denotes (-1: not a text of digits).
RECURSIVE ParseNat(_)
ParseNat(t) ==
    LET value == [c \in {"0", "1", "2", "3", "4", "5", "6", "7", "8", "9"} |->
                     CASE c = "0" -> 0 [] c = "1" -> 1 [] c = "2" -> 2 [] c = "3" -> 3
                       [] c = "4" -> 4 [] c = "5" -> 5 [] c = "6" -> 6 [] c = "7" -> 7
                       [] c = "8" -> 8 [] c = "9" -> 9]
    IN  IF t = <<>> \/ Last(t) \notin DOMAIN value THEN -1
        ELSE IF Len(t) = 1 THEN value[t[1]]
        ELSE IF ParseNat(SubSeq(t, 1, Len(t) - 1)) < 0 THEN -1
        ELSE 10 * ParseNat(SubSeq(t, 1, Len(t) - 1)) + value[Last(t)]

\* `text` is "(N) " followed by `rest`, N the decimal numeral of n.
IsCounted(text, n, rest) ==
    \E k \in 1..Len(text) :
        /\ text[1] = "("
        /\ k >= 3
        /\ ParseNat(SubSeq(text, 2, k - 1)) = n
        /\ text[k] = ")"
        /\ k + 1 <= Len(text)
        /\ text[k + 1] = " "
        /\ SubSeq(text, k + 2, Len(text)) = rest

\* C10: alert formatting.  For the alerts of the raw response a record was
\* made from: alert_count is the number of entries (0 without the key
\* "alerts"), alert_names is the event names joined with ", " in the order
\* given (empty for none); in a finished image the alert text drawn is
\* alert_names for one alert, "(N) " and alert_names for N > 1 alerts, and no
\* alert text is drawn for none.
C10_AlertFormatting ==
    weather_data # <<>> =>
        LET d == data[1]
            w == weather_data[1]
            entries == IF d.has_alerts THEN d.alerts ELSE <<>>
            events == [i \in 1..Len(entries) |-> entries[i].event]
        IN  /\ w.alert_count = Len(entries)
            /\ ~d.has_alerts => w.alert_count = 0 /\ w.alert_names = <<>>
            /\ IsCommaJoined(w.alert_names, events)
            /\ image # <<>> =>
                  LET drawn == {i \in 1..Len(image[1].banner) :
                                    image[1].banner[i].kind = "alert"}
                  IN  /\ w.alert_count = 0 => drawn = {}
                      /\ w.alert_count > 0 => Cardinality(drawn) = 1
                      /\ \A i \in drawn :
                            IF w.alert_count = 1
                            THEN image[1].banner[i].text = w.alert_names
                            ELSE IsCounted(image[1].banner[i].text, w.alert_count,
                                           w.alert_names)

\* "(2) Heat, Flood" on the banner of a finished image
C10_Witness ==
    /\ image # <<>>
    /\ weather_data[1].alert_count = 2
    /\ BannerShows("alert")
    /\ Last(image[1].banner).text =
          <<"(", "2", ")", " ", "H", "e", "a", "t", ",", " ", "F", "l", "o", "o", "d">>

====
